---- MODULE Spec2Model ----
(***************************************************************************)
(* PathGenerator<GSG> of ql/MonteCarlo/pathgenerator.hpp.                  *)
(*                                                                         *)
(* Real numbers are fixed-point integers in tenths (1.0 is 10, 0.1 is 1).  *)
(* C++ containers are 0-based; a TLA+ sequence s holds C++ element i at    *)
(* s[i+1].  The collaborators whose code is outside pathgenerator.hpp      *)
(* (sequence generator, stochastic process, time grid, Brownian bridge)    *)
(* are small deterministic stand-ins with the interface the header uses.   *)
(***************************************************************************)
EXTENDS Integers, Sequences, FiniteSets, TLC

\* Largest number of time steps / generator dimension explored.
MaxN == 2
\* Seeds of the deterministic sequence generator: 0..MaxSeed.
MaxSeed == 2
\* Calls of next()/antithetic() explored on the single generator of Spec.
MaxCalls == 3
\* Calls explored, in total, on the two generators of SpecTwo.
MaxCallsTwo == 2
\* Draws the caller takes from its own generator object.
MaxDraws == 1

Instances == {1, 2}

VARIABLES
    process,    \* the StochasticProcess handed to every constructor
    gen0,       \* the caller's own GSG object (constructor argument)
    draws,      \* number of nextSequence() calls the caller made on gen0
    pg,         \* the PathGenerator objects, by instance
    calls       \* number of next()/antithetic() calls made so far

vars == <<process, gen0, draws, pg, calls>>

----------------------------------------------------------------------------
(* Collaborator: GSG, a deterministic sequence generator.                   *)

VariateTable == <<1, -2, 5, 0, 3>>
WeightTable == <<10, 5, 20>>

Zeros(n) == [i \in 1..n |-> 0]

NoSample == [value |-> <<>>, weight |-> 0]

\* The k-th draw (k >= 1) of the generator with this seed and dimension.
StreamSample(seed, dim, k) ==
    [value  |-> [i \in 1..dim |->
                    VariateTable[((seed + (k - 1) * dim + (i - 1))
                                     % Len(VariateTable)) + 1]],
     weight |-> WeightTable[((seed + k - 1) % Len(WeightTable)) + 1]]

FreshGSG(seed, dim) ==
    [seed |-> seed, dim |-> dim, pos |-> 0,
     last |-> [value |-> Zeros(dim), weight |-> 10]]

dimension(g) == g.dim

\* nextSequence(): advances the generator; the draw is then its last one.
nextSequence(g) ==
    [g EXCEPT !.pos = @ + 1,
              !.last = StreamSample(g.seed, g.dim, g.pos + 1)]

lastSequence(g) == g.last

----------------------------------------------------------------------------
(* Collaborator: StochasticProcess1D.                                       *)

Processes == {"unit", "drift", "statevol", "geometric"}

x0(proc) ==
    CASE proc = "unit" -> 1000
      [] proc = "drift" -> 50
      [] proc = "statevol" -> 20
      [] OTHER -> 3

expectation(proc, t, x, dt) ==
    CASE proc = "unit" -> x
      [] proc = "drift" -> x + (3 + t) * dt
      [] proc = "statevol" -> x
      [] OTHER -> x + x * dt

stdDeviation(proc, t, x, dt) ==
    CASE proc = "unit" -> 1
      [] proc = "drift" -> 2 * dt
      [] proc = "statevol" -> x
      [] OTHER -> dt

apply(proc, mean, shock) ==
    IF proc = "geometric" THEN mean + mean * shock ELSE mean + shock

evolve(proc, t, x, dt, dw) ==
    apply(proc, expectation(proc, t, x, dt), stdDeviation(proc, t, x, dt) * dw)

----------------------------------------------------------------------------
(* Collaborator: TimeGrid.                                                  *)

Lengths == {12}

\* TimeGrid(length, steps): steps+1 equally spaced points from 0.
UniformGrid(length, steps) ==
    [i \in 1..(steps + 1) |-> IF steps = 0 THEN 0 ELSE ((i - 1) * length) \div steps]

\* Explicit grids a caller may pass, one or more per step count.
AllGrids == {<<0>>, <<0, 4>>, <<0, 1, 5>>, <<0, 2, 3, 7>>, <<0, 1, 2, 4, 8>>}
Grids == {g \in AllGrids : Len(g) <= MaxN + 2}

TimeAt(grid, i) == grid[i + 1]
Dt(grid, i) == grid[i + 2] - grid[i + 1]

----------------------------------------------------------------------------
(* Collaborator: BrownianBridge<GSG>.  It owns a copy of the generator and  *)
(* turns each draw into time-ordered cumulative values: the first variate   *)
(* fixes the terminal value, the others the earlier points.                 *)

RECURSIVE SumFrom(_, _)
SumFrom(v, i) == IF i > Len(v) THEN 0 ELSE v[i] + SumFrom(v, i + 1)

BridgeTransform(v) == [i \in 1..Len(v) |-> v[1] - SumFrom(v, i + 1)]

NewBridge(g) ==
    [generator_ |-> g,
     next_ |-> [value |-> Zeros(dimension(g)), weight |-> 10]]

bbNext(bb) ==
    LET g == nextSequence(bb.generator_)
    IN  [generator_ |-> g,
         next_ |-> [value |-> BridgeTransform(lastSequence(g).value),
                    weight |-> lastSequence(g).weight]]

bbLast(bb) == bb.next_

----------------------------------------------------------------------------
(* PathGenerator<GSG>: data members, plus a record of each call for the     *)
(* properties below (constructor arguments, the sample the call read, the   *)
(* indices it touched, the sample the previous call returned).              *)

NoInstance ==
    [state |-> "none",
     brownianBridge_ |-> FALSE,
     generator_ |-> FreshGSG(0, 0),
     dimension_ |-> 0,
     timeGrid_ |-> <<0>>,
     process_ |-> "unit",
     next_ |-> NoSample,
     bb_ |-> NewBridge(FreshGSG(0, 0)),
     ctor |-> [form |-> "none", steps |-> 0, gen |-> FreshGSG(0, 0)],
     nNext |-> 0, lastOp |-> "none", prevOp |-> "none",
     prev |-> NoSample, first |-> NoSample, used |-> NoSample,
     shocks |-> <<>>, vreads |-> {}, greads |-> {}, writes |-> {},
     stray |-> FALSE]

\* Array contents before the first write: Path(timeGrid_) does not define them.
Garbage == {0, 7}

\* generator_(generator): the member is a copy of the caller's object.
CopyGSGShared(g) == IF pg[1].state = "ready" THEN pg[1].generator_ ELSE g
CopyGSG(g) == g

\* QL_REQUIRE(dimension_ == timeSteps, ...)
DimensionCheckLoose(dim, steps) == dim <= steps
DimensionCheck(dim, steps) == dim = steps

\* The object after the member initialisers of either constructor.
Members(proc, grid, generator, brownianBridge, fill) ==
    [NoInstance EXCEPT
        !.brownianBridge_ = brownianBridge,
        !.generator_ = CopyGSG(generator),
        !.dimension_ = dimension(CopyGSG(generator)),
        !.timeGrid_ = grid,
        !.process_ = proc,
        !.next_ = [value |-> [i \in 1..Len(grid) |-> fill], weight |-> 10],
        !.bb_ = NewBridge(CopyGSG(generator))]

\* A constructor: members, then the dimension check.  A failed check throws,
\* and no object exists afterwards.
Constructed(form, proc, grid, steps, generator, brownianBridge, fill) ==
    LET self == Members(proc, grid, generator, brownianBridge, fill)
        args == [form |-> form, steps |-> steps, gen |-> generator]
    IN  IF DimensionCheck(self.dimension_, steps)
        THEN [self EXCEPT !.state = "ready", !.ctor = args]
        ELSE [NoInstance EXCEPT !.state = "failed", !.ctor = args]

\* PathGenerator(process, length, timeSteps, generator, brownianBridge)
ConstructSteps(p) ==
    /\ pg[p].state = "none"
    /\ \E length \in Lengths, timeSteps \in 0..MaxN,
          brownianBridge \in BOOLEAN, fill \in Garbage :
          pg' = [pg EXCEPT ![p] =
                    Constructed("steps", process, UniformGrid(length, timeSteps),
                                timeSteps, gen0, brownianBridge, fill)]
    /\ UNCHANGED <<process, gen0, draws, calls>>

\* PathGenerator(process, timeGrid, generator, brownianBridge)
ConstructGrid(p) ==
    /\ pg[p].state = "none"
    /\ \E timeGrid \in Grids, brownianBridge \in BOOLEAN, fill \in Garbage :
          pg' = [pg EXCEPT ![p] =
                    Constructed("grid", process, timeGrid, Len(timeGrid) - 1,
                                gen0, brownianBridge, fill)]
    /\ UNCHANGED <<process, gen0, draws, calls>>

----------------------------------------------------------------------------
(* next(bool antithetic)                                                    *)

SetWeightKept(next, w) == next
SetWeight(next, w) == [next EXCEPT !.weight = w]

SetFrontKept(path, x) == path
SetFront(path, x) == [path EXCEPT ![1] = x]

\* antithetic ? generator_.lastSequence() : generator_.nextSequence()
DirectSequenceFresh(g, antithetic) ==
    [gen |-> nextSequence(g), sample |-> lastSequence(nextSequence(g))]
DirectSequence(g, antithetic) ==
    IF antithetic
    THEN [gen |-> g, sample |-> lastSequence(g)]
    ELSE [gen |-> nextSequence(g), sample |-> lastSequence(nextSequence(g))]

\* antithetic ? bb_.last() : bb_.next()
BridgeSequence(bb, antithetic) ==
    IF antithetic
    THEN [bb |-> bb, sample |-> bbLast(bb)]
    ELSE [bb |-> bbNext(bb), sample |-> bbLast(bbNext(bb))]

\* antithetic ? -sequence_.value[i-1] : sequence_.value[i-1]
DirectShockUnsigned(antithetic, v) == v
DirectShock(antithetic, v) == IF antithetic THEN -v ELSE v

\* antithetic ? -diffusion : diffusion
BridgeShockUnsigned(antithetic, diffusion) == diffusion
BridgeShock(antithetic, diffusion) == IF antithetic THEN -diffusion ELSE diffusion

\* diffusion = stdDev_.value[i-1] - stdDev_.value[i-2]
BridgeDiffusionRaw(value, i) == value[i]
BridgeDiffusion(value, i) == value[i] - value[i - 1]

\* First index of the direct branch's loop.
DirectFirstSkipped == 1 + 1
DirectFirst == 1

\* What a call has done to the buffer so far.
Start(path) ==
    [path |-> path, vreads |-> {}, greads |-> {}, writes |-> {}, shocks |-> <<>>]

Front(proc, acc) ==
    [acc EXCEPT !.path = SetFront(acc.path, x0(proc)), !.writes = @ \cup {0}]

\* for (Size i=1; i<path.length(); i++) path[i] = process_->evolve(...)
RECURSIVE DirectLoop(_, _, _, _, _, _)
DirectLoop(proc, grid, value, antithetic, acc, i) ==
    IF i < Len(acc.path)
    THEN LET t == TimeAt(grid, i - 1)
             dt == Dt(grid, i - 1)
             dw == DirectShock(antithetic, value[i])
         IN  DirectLoop(proc, grid, value, antithetic,
                 [path |-> [acc.path EXCEPT ![i + 1] =
                               evolve(proc, t, acc.path[i], dt, dw)],
                  vreads |-> acc.vreads \cup {i - 1},
                  greads |-> acc.greads \cup {i - 1},
                  writes |-> acc.writes \cup {i},
                  shocks |-> Append(acc.shocks, dw)],
                 i + 1)
    ELSE acc

\* path[1] = apply(expectation(t, path.front(), dt), +-stdDev_.value[0])
BridgeFirst(proc, grid, value, antithetic, acc) ==
    LET t == TimeAt(grid, 0)
        dt == Dt(grid, 0)
        shock == BridgeShock(antithetic, value[1])
    IN  [path |-> [acc.path EXCEPT ![2] =
                      apply(proc, expectation(proc, t, acc.path[1], dt), shock)],
         vreads |-> acc.vreads \cup {0},
         greads |-> acc.greads \cup {0},
         writes |-> acc.writes \cup {1},
         shocks |-> Append(acc.shocks, shock)]

\* for (Size i=2; i<path.length(); i++) path[i] = apply(expectation(...), ...)
RECURSIVE BridgeLoop(_, _, _, _, _, _)
BridgeLoop(proc, grid, value, antithetic, acc, i) ==
    IF i < Len(acc.path)
    THEN LET t == TimeAt(grid, i - 1)
             dt == Dt(grid, i - 1)
             shock == BridgeShock(antithetic, BridgeDiffusion(value, i))
         IN  BridgeLoop(proc, grid, value, antithetic,
                 [path |-> [acc.path EXCEPT ![i + 1] =
                               apply(proc, expectation(proc, t, acc.path[i], dt),
                                     shock)],
                  vreads |-> acc.vreads \cup {i - 1, i - 2},
                  greads |-> acc.greads \cup {i - 1},
                  writes |-> acc.writes \cup {i},
                  shocks |-> Append(acc.shocks, shock)],
                 i + 1)
    ELSE acc

\* The buffer after the direct branch has run on it.
DirectPath(proc, grid, value, antithetic, path) ==
    DirectLoop(proc, grid, value, antithetic, Front(proc, Start(path)), DirectFirst)

\* The buffer after the bridge branch has run on it (at least one step).
BridgePath(proc, grid, value, antithetic, path) ==
    BridgeLoop(proc, grid, value, antithetic,
               BridgeFirst(proc, grid, value, antithetic, Front(proc, Start(path))),
               2)

\* The object once a call has returned: the buffer, and the call's record.
Returned(self, antithetic, sample, acc, stray) ==
    LET out == SetWeight([self.next_ EXCEPT !.value = acc.path], sample.weight)
        first == (~antithetic) /\ self.nNext = 0
    IN  [self EXCEPT
            !.next_ = out,
            !.nNext = IF antithetic THEN @ ELSE @ + 1,
            !.lastOp = IF antithetic THEN "antithetic" ELSE "next",
            !.prevOp = self.lastOp,
            !.prev = self.next_,
            !.first = IF first THEN out ELSE @,
            !.used = sample,
            !.shocks = acc.shocks,
            !.vreads = acc.vreads, !.greads = acc.greads, !.writes = acc.writes,
            !.stray = stray]

\* The else branch (brownianBridge_ false).
NextDirect(self, antithetic) ==
    LET d == DirectSequence(self.generator_, antithetic)
        acc == DirectPath(self.process_, self.timeGrid_, d.sample.value,
                          antithetic, self.next_.value)
    IN  Returned([self EXCEPT !.generator_ = d.gen], antithetic, d.sample, acc, FALSE)

\* The then branch (brownianBridge_ true) on a grid with at least one step.
NextBridge(self, antithetic) ==
    LET b == BridgeSequence(self.bb_, antithetic)
        acc == BridgePath(self.process_, self.timeGrid_, b.sample.value,
                          antithetic, self.next_.value)
    IN  Returned([self EXCEPT !.bb_ = b.bb], antithetic, b.sample, acc, FALSE)

\* The then branch on a grid with no step: stdDev_.value[0], timeGrid_.dt(0)
\* and path[1] do not exist.  The read yields some value and the write lands
\* outside the one-element buffer, whose contents stay as they are.
NextBridgeNoStep(self, antithetic) ==
    LET b == BridgeSequence(self.bb_, antithetic)
        acc == [Front(self.process_, Start(self.next_.value)) EXCEPT
                   !.vreads = {0}, !.greads = {0}, !.writes = {0, 1}]
    IN  Returned([self EXCEPT !.bb_ = b.bb], antithetic, b.sample, acc, TRUE)

NextBool(p, antithetic) ==
    LET self == pg[p]
    IN  IF ~self.brownianBridge_
        THEN pg' = [pg EXCEPT ![p] = NextDirect(self, antithetic)]
        ELSE IF Len(self.next_.value) >= 2
        THEN pg' = [pg EXCEPT ![p] = NextBridge(self, antithetic)]
        ELSE \/ pg' = [pg EXCEPT ![p] = NextBridgeNoStep(self, antithetic)]
             \/ pg' = [pg EXCEPT ![p] = [self EXCEPT !.state = "crashed"]]

\* next()
PGNext(p, budget) ==
    /\ pg[p].state = "ready"
    /\ calls < budget
    /\ NextBool(p, FALSE)
    /\ calls' = calls + 1
    /\ UNCHANGED <<process, gen0, draws>>

\* antithetic()
PGAntithetic(p, budget) ==
    /\ pg[p].state = "ready"
    /\ calls < budget
    /\ NextBool(p, TRUE)
    /\ calls' = calls + 1
    /\ UNCHANGED <<process, gen0, draws>>

\* The caller draws from its own generator object.
CallerDraw ==
    /\ draws < MaxDraws
    /\ gen0' = nextSequence(gen0)
    /\ draws' = draws + 1
    /\ UNCHANGED <<process, pg, calls>>

----------------------------------------------------------------------------
(* Specifications.                                                          *)

Init ==
    /\ process \in Processes
    /\ \E seed \in 0..MaxSeed, dim \in 0..MaxN : gen0 = FreshGSG(seed, dim)
    /\ draws = 0
    /\ pg = [p \in Instances |-> NoInstance]
    /\ calls = 0

\* One PathGenerator.
Next ==
    \/ CallerDraw
    \/ ConstructSteps(1)
    \/ ConstructGrid(1)
    \/ PGNext(1, MaxCalls)
    \/ PGAntithetic(1, MaxCalls)

Spec == Init /\ [][Next]_vars

\* Two PathGenerators built by the same caller, on one of two processes.
InitTwo ==
    /\ process \in {"drift", "statevol"}
    /\ \E seed \in 0..MaxSeed, dim \in 0..MaxN : gen0 = FreshGSG(seed, dim)
    /\ draws = 0
    /\ pg = [p \in Instances |-> NoInstance]
    /\ calls = 0

\* Objects are numbered in the order the caller builds them.
InOrder(p) == \A q \in Instances : q < p => pg[q].state # "none"

NextTwo ==
    \/ CallerDraw
    \/ \E p \in Instances : InOrder(p) /\ ConstructSteps(p)
    \/ \E p \in Instances : InOrder(p) /\ ConstructGrid(p)
    \/ \E p \in Instances : PGNext(p, MaxCallsTwo)
    \/ \E p \in Instances : PGAntithetic(p, MaxCallsTwo)

SpecTwo == InitTwo /\ [][NextTwo]_vars

----------------------------------------------------------------------------
(* Vocabulary of the properties.                                            *)

Steps(self) == Len(self.timeGrid_) - 1

\* A call of next() or antithetic() has returned on this object.
Called(self) == self.state = "ready" /\ self.lastOp # "none"

IsAnti(self) == self.lastOp = "antithetic"

Signed(self, v) == IF IsAnti(self) THEN -v ELSE v

Means == {0, 3, 50}
Shocks == {-2, 0, 5}

Additive(proc) == \A m \in Means, s \in Shocks : apply(proc, m, s) = m + s

\* evolve(t,x,dt,dw) = expectation(t,x,dt) + s(t,dt)*dw, s not depending on x.
StateFreeShock(proc) ==
    \A t \in {0, 4}, dt \in {1, 6}, x \in Means, y \in Means, dw \in Shocks :
        evolve(proc, t, x, dt, dw) - expectation(proc, t, x, dt)
            = evolve(proc, t, y, dt, dw) - expectation(proc, t, y, dt)

\* The sample the k-th next() of this object must read: the k-th draw after
\* the state of the generator the constructor was given.
KthSample(self, k) ==
    LET g == self.ctor.gen
        s == StreamSample(g.seed, g.dim, g.pos + k)
    IN  IF self.brownianBridge_
        THEN [value |-> BridgeTransform(s.value), weight |-> s.weight]
        ELSE s

Poison(self) == [i \in 1..Len(self.next_.value) |-> -999]

\* The path the last call builds when the buffer held Poison before it.
Rebuilt(self) ==
    IF ~self.brownianBridge_
    THEN DirectPath(self.process_, self.timeGrid_, self.used.value,
                    IsAnti(self), Poison(self)).path
    ELSE IF Steps(self) >= 1
    THEN BridgePath(self.process_, self.timeGrid_, self.used.value,
                    IsAnti(self), Poison(self)).path
    ELSE Front(self.process_, Start(Poison(self))).path

----------------------------------------------------------------------------
(* C1: a constructor fails iff generator.dimension() differs from the step  *)
(* count (timeSteps, or timeGrid.size()-1), and succeeds otherwise; only an *)
(* object whose dimension equals its step count ever serves a call.         *)
C1_ConstructionIffDimension ==
    \A p \in Instances :
        LET self == pg[p]
            tried == self.ctor.form # "none"
            match == dimension(self.ctor.gen) = self.ctor.steps
        IN  /\ (self.state # "none") <=> tried
            /\ tried => ((self.state = "failed") <=> ~match)
            /\ tried => ((self.state \in {"ready", "crashed"}) <=> match)
            /\ self.state \in {"ready", "crashed"} =>
                  /\ self.ctor.steps = Steps(self)
                  /\ self.dimension_ = Steps(self)
            /\ self.state = "failed" => self.lastOp = "none"

C1_Witness ==
    /\ pg[1].state = "failed"
    /\ pg[1].ctor.form = "grid"
    /\ dimension(pg[1].ctor.gen) = 1
    /\ pg[1].ctor.steps = 2

(* C2 as stated: in direct mode path[i] = apply(expectation(t[i-1],           *)
(* path[i-1], dt[i-1]), sign * v[i-1]) for every i in 1..N.                 *)
C2_DirectIsApplyOfExpectation ==
    \A p \in Instances :
        LET self == pg[p]
            path == self.next_.value
        IN  (Called(self) /\ ~self.brownianBridge_) =>
                \A i \in 1..Steps(self) :
                    path[i + 1] =
                        apply(self.process_,
                              expectation(self.process_, TimeAt(self.timeGrid_, i - 1),
                                          path[i], Dt(self.timeGrid_, i - 1)),
                              Signed(self, self.used.value[i]))

(* C2 amended: in direct mode path[i] = evolve(t[i-1], path[i-1], dt[i-1],   *)
(* sign * v[i-1]) for every i in 1..N; for N=2, x0=100, a process evolving  *)
(* by x + dw and the draw [0.1, -0.2], next() returns [100, 100.1, 99.9]    *)
(* and antithetic() returns [100, 99.9, 100.1].                             *)
C2_DirectIsEvolve ==
    \A p \in Instances :
        LET self == pg[p]
            path == self.next_.value
        IN  (Called(self) /\ ~self.brownianBridge_) =>
                /\ \A i \in 1..Steps(self) :
                      path[i + 1] =
                          evolve(self.process_, TimeAt(self.timeGrid_, i - 1),
                                 path[i], Dt(self.timeGrid_, i - 1),
                                 Signed(self, self.used.value[i]))
                /\ (self.process_ = "unit" /\ self.used.value = <<1, -2>>) =>
                      path = IF IsAnti(self) THEN <<1000, 999, 1001>>
                                             ELSE <<1000, 1001, 999>>

C2_Witness ==
    /\ Called(pg[1]) /\ ~pg[1].brownianBridge_
    /\ pg[1].process_ = "unit"
    /\ pg[1].prevOp = "next" /\ pg[1].lastOp = "antithetic"
    /\ pg[1].used.value = <<1, -2>>
    /\ pg[1].prev.value = <<1000, 1001, 999>>
    /\ pg[1].next_.value = <<1000, 999, 1001>>

(* C3: in bridge mode path[1] = apply(expectation(t[0], path[0], dt[0]),     *)
(* sign * b[0]) and path[i] = apply(expectation(t[i-1], path[i-1], dt[i-1]), *)
(* sign * (b[i-1] - b[i-2])) for i in 2..N; bridge output [0.5, 0.5] gives  *)
(* the diffusions [0.5, 0.0].                                               *)
C3_BridgeDifferencing ==
    \A p \in Instances :
        LET self == pg[p]
            path == self.next_.value
            b == self.used.value
            step(i, diffusion) ==
                apply(self.process_,
                      expectation(self.process_, TimeAt(self.timeGrid_, i - 1),
                                  path[i], Dt(self.timeGrid_, i - 1)),
                      Signed(self, diffusion))
        IN  (Called(self) /\ self.brownianBridge_ /\ Steps(self) >= 1) =>
                /\ path[2] = step(1, b[1])
                /\ \A i \in 2..Steps(self) : path[i + 1] = step(i, b[i] - b[i - 1])
                /\ (b = <<5, 5>> /\ ~IsAnti(self)) => self.shocks = <<5, 0>>

C3_Witness ==
    /\ Called(pg[1]) /\ pg[1].brownianBridge_
    /\ pg[1].lastOp = "next"
    /\ pg[1].used.value = <<5, 5>>
    /\ pg[1].shocks = <<5, 0>>
    /\ pg[1].process_ = "drift"

(* C4: antithetic() consumes no draw: after k >= 1 calls of next(), however  *)
(* many antithetic() calls are interleaved, the call reads the k-th draw,   *)
(* and an antithetic() that follows an antithetic() returns the same sample.*)
C4_AntitheticConsumesNoDraw ==
    \A p \in Instances :
        LET self == pg[p]
        IN  Called(self) =>
                /\ self.nNext >= 1 => self.used = KthSample(self, self.nNext)
                /\ (IsAnti(self) /\ self.prevOp = "antithetic") =>
                      self.next_ = self.prev
                /\ IF self.brownianBridge_
                   THEN /\ self.bb_.generator_.pos = self.ctor.gen.pos + self.nNext
                        /\ self.generator_ = self.ctor.gen
                   ELSE self.generator_.pos = self.ctor.gen.pos + self.nNext

C4_Witness ==
    /\ Called(pg[1])
    /\ pg[1].nNext = 2
    /\ pg[1].lastOp = "next" /\ pg[1].prevOp = "antithetic"
    /\ pg[1].used # pg[1].first
    /\ Steps(pg[1]) = 2

(* C5: every returned path has N+1 elements and element 0 equal to x0().     *)
C5_LengthAndFront ==
    \A p \in Instances :
        LET self == pg[p]
        IN  Called(self) =>
                /\ Len(self.next_.value) = self.ctor.steps + 1
                /\ self.next_.value[1] = x0(self.process_)

C5_Witness ==
    /\ Called(pg[1]) /\ pg[1].brownianBridge_
    /\ pg[1].ctor.steps = 2
    /\ pg[1].lastOp = "antithetic" /\ pg[1].prevOp = "none"
    /\ pg[1].next_.value[1] = 50

\* The deviations of the last two returned paths from their own step
\* expectations are exact negations of each other.
Mirrored(self) ==
    LET anti == self.next_.value
        direct == self.prev.value
        mean(path, i) ==
            expectation(self.process_, TimeAt(self.timeGrid_, i - 1),
                        path[i], Dt(self.timeGrid_, i - 1))
    IN  \A i \in 1..Steps(self) :
            anti[i + 1] - mean(anti, i) = -(direct[i + 1] - mean(direct, i))

(* C6 as stated: for an additive process, the antithetic() that follows a    *)
(* next() returns a path whose deviation from its own step expectation is   *)
(* the negation of the direct path's, at every step, in both modes.         *)
C6_AntitheticMirrors ==
    \A p \in Instances :
        LET self == pg[p]
        IN  (Called(self) /\ Additive(self.process_)
                /\ self.prevOp = "next" /\ IsAnti(self)) => Mirrored(self)

(* C6 amended: the same, in bridge mode for every additive process, and in   *)
(* direct mode for the additive processes whose evolve adds to the          *)
(* expectation a shock that does not depend on the state x.                 *)
C6_AntitheticMirrorsStateFree ==
    \A p \in Instances :
        LET self == pg[p]
        IN  (Called(self) /\ Additive(self.process_)
                /\ self.prevOp = "next" /\ IsAnti(self)
                /\ (self.brownianBridge_ \/ StateFreeShock(self.process_)))
                => Mirrored(self)

C6_Witness ==
    /\ Called(pg[1]) /\ pg[1].brownianBridge_
    /\ pg[1].process_ = "statevol"
    /\ pg[1].prevOp = "next" /\ IsAnti(pg[1])
    /\ Steps(pg[1]) = 2
    /\ pg[1].shocks = <<-3, 2>>

(* C7: the returned weight is the weight of the draw the call used; an       *)
(* antithetic() returns the weight its next() returned.                     *)
C7_WeightPassthrough ==
    \A p \in Instances :
        LET self == pg[p]
        IN  Called(self) =>
                /\ self.next_.weight = self.used.weight
                /\ self.nNext >= 1 =>
                      self.next_.weight = KthSample(self, self.nNext).weight
                /\ (self.prevOp = "next" /\ IsAnti(self)) =>
                      self.next_.weight = self.prev.weight

C7_Witness ==
    /\ Called(pg[1])
    /\ pg[1].prevOp = "next" /\ IsAnti(pg[1])
    /\ pg[1].next_.weight = 20
    /\ ~pg[1].brownianBridge_

\* Two objects built from the same arguments.
SameConfiguration(a, b) ==
    /\ a.process_ = b.process_
    /\ a.timeGrid_ = b.timeGrid_
    /\ a.brownianBridge_ = b.brownianBridge_
    /\ a.ctor.gen = b.ctor.gen

(* C8: two PathGenerators built from the same process, grid, bridge flag and *)
(* generator state return the same first sample; each draws from its own    *)
(* copy, and the caller's generator is moved only by the caller.            *)
C8_IndependentCopies ==
    /\ \A p \in Instances, q \in Instances :
          (pg[p].state = "ready" /\ pg[q].state = "ready"
              /\ pg[p].nNext >= 1 /\ pg[q].nNext >= 1
              /\ SameConfiguration(pg[p], pg[q]))
              => pg[p].first = pg[q].first
    /\ \A p \in Instances :
          (pg[p].state = "ready" /\ pg[p].nNext >= 1) =>
              pg[p].first.weight = KthSample(pg[p], 1).weight
    /\ gen0.pos = draws
    /\ draws >= 1 => lastSequence(gen0) = StreamSample(gen0.seed, gen0.dim, draws)

C8_Witness ==
    /\ pg[1].state = "ready" /\ pg[2].state = "ready"
    /\ pg[1].nNext = 1 /\ pg[2].nNext = 1
    /\ SameConfiguration(pg[1], pg[2])
    /\ ~pg[1].brownianBridge_
    /\ pg[1].ctor.gen.pos = 1
    /\ Steps(pg[1]) = 2
    /\ pg[1].first.value[1] = 20
    /\ pg[1].first.value[2] # 20

(* C9: once construction has succeeded, every call completes and reads only  *)
(* variate indices 0..N-1 and grid steps 0..N-1 and writes only path        *)
(* indices 0..N.                                                            *)
C9_CallsNeverFail ==
    \A p \in Instances :
        LET self == pg[p]
        IN  /\ self.state # "crashed"
            /\ ~self.stray
            /\ self.vreads \subseteq 0..(Steps(self) - 1)
            /\ self.greads \subseteq 0..(Steps(self) - 1)
            /\ self.writes \subseteq 0..Steps(self)

(* C10: every call rewrites the weight and all N+1 path elements, so the     *)
(* returned sample is what the call builds from the vector it used whatever *)
(* the buffer held before.                                                  *)
C10_NoHistory ==
    \A p \in Instances :
        LET self == pg[p]
        IN  Called(self) =>
                /\ 0..Steps(self) \subseteq self.writes
                /\ self.next_.value = Rebuilt(self)
                /\ self.next_.weight = self.used.weight

C10_Witness ==
    /\ Called(pg[1])
    /\ pg[1].prevOp = "next" /\ pg[1].lastOp = "next"
    /\ Steps(pg[1]) = 2
    /\ \A i \in 2..3 : pg[1].next_.value[i] # pg[1].prev.value[i]
    /\ pg[1].next_.weight # pg[1].prev.weight

====
